---- MODULE Spec2Model ----
(***************************************************************************)
(* Model of src/app.py: the ledger kept by DataManager in the three sheets *)
(* of EXCEL_FILE (Transactions, Accounts, Categories), the FinanceApp      *)
(* handlers that drive it, and CurrencyManager.get_rates with its cache    *)
(* file.                                                                   *)
(*                                                                         *)
(* Text typed into a CTkEntry is a sequence of characters (a tuple of      *)
(* one-character strings), so that float() is a parser and not the         *)
(* identity.  A spreadsheet cell is either text or a number.  Account and  *)
(* category names are opaque non-numeric strings.  The columns that no     *)
(* handler ever reads back (date, note, account type, currency) are left   *)
(* out of the rows.                                                        *)
(***************************************************************************)
EXTENDS Integers, Sequences, FiniteSets, TLC

VARIABLES
    fileExists,      \* os.path.exists(EXCEL_FILE)
    transactions,    \* sheet "Transactions": rows [id, account, category, amount, type]
    accounts,        \* sheet "Accounts": rows [name, balance]
    categories,      \* sheet "Categories": rows [category_name, type]
    initial,         \* history: the balance text each Accounts row was created with
    outcome,         \* what the last handler printed, raised or did
    now,             \* time.time(), in seconds
    cache,           \* RATES_FILE
    returned         \* what the last get_rates call returned or raised

vars == <<fileExists, transactions, accounts, categories, initial, outcome,
          now, cache, returned>>
ledgerVars == <<fileExists, transactions, accounts, categories, initial, outcome>>
rateVars == <<now, cache, returned>>

----------------------------------------------------------------------------
(* Bounds of the model *)

\* the number of rows the three sheets may hold together
MaxRows == 4
\* a handler is followed only while its result stays within the bound
WithinBounds == Len(accounts') + Len(categories') + Len(transactions') <= MaxRows

----------------------------------------------------------------------------
(* Inputs *)

\* the names the user types or picks in the add-transaction panel; a name
\* is absent as long as no row was created with it
AccountNames == {"Cash", "Bank"}
CategoryNames == {"Food", "Salary"}
\* the name entries of the add-account and add-category panels; "" is an
\* entry left empty
NameInputs == AccountNames \cup {""}
CategoryNameInputs == CategoryNames \cup {""}
\* the values offered by the category type combo box
CategoryTypes == {"Expense", "Income"}
\* the "Initial Balance" entry: empty, a number, not a number
BalanceInputs == {<<>>, <<"1", "0">>, <<"a">>}
\* the "Amount" entry: empty, not a number, negative, positive
AmountInputs == {<<>>, <<"a">>, <<"-", "5">>, <<"5">>}

----------------------------------------------------------------------------
(* Cells and float() *)

Str(s) == [k |-> "str", s |-> s, n |-> 0]
Num(n) == [k |-> "num", s |-> <<>>, n |-> n]

Digits == {"0", "1", "2", "3", "4", "5", "6", "7", "8", "9"}

DigitVal(c) ==
    CASE c = "0" -> 0 [] c = "1" -> 1 [] c = "2" -> 2 [] c = "3" -> 3
      [] c = "4" -> 4 [] c = "5" -> 5 [] c = "6" -> 6 [] c = "7" -> 7
      [] c = "8" -> 8 [] c = "9" -> 9

AllDigits(s) == Len(s) > 0 /\ \A i \in 1..Len(s) : s[i] \in Digits

\* the texts float() accepts, among those over digits, "-" and letters
IsNumeric(s) ==
    IF Len(s) > 0 /\ s[1] = "-" THEN AllDigits(Tail(s)) ELSE AllDigits(s)

RECURSIVE DigitsVal(_)
DigitsVal(s) ==
    IF s = <<>> THEN 0
    ELSE 10 * DigitsVal(SubSeq(s, 1, Len(s) - 1)) + DigitVal(s[Len(s)])

\* float(s) for a text s that float() accepts
ToNum(s) == IF s[1] = "-" THEN 0 - DigitsVal(Tail(s)) ELSE DigitsVal(s)

\* float(cell) raises ValueError unless CellNumeric(cell)
CellNumeric(c) == c.k = "num" \/ IsNumeric(c.s)
float(c) == IF c.k = "num" THEN c.n ELSE ToNum(c.s)

----------------------------------------------------------------------------
(* DataManager *)

\* pd.read_excel infers a column's type: a column whose cells all convert to
\* numbers is read as numbers, any other column is read as it is stored
InferBalance(rows) ==
    IF \A i \in 1..Len(rows) : CellNumeric(rows[i].balance)
    THEN [i \in 1..Len(rows) |->
             [rows[i] EXCEPT !.balance = Num(float(rows[i].balance))]]
    ELSE rows

get_data(sheet_name) ==
    CASE sheet_name = "Accounts" -> InferBalance(accounts)
      [] sheet_name = "Categories" -> categories
      [] sheet_name = "Transactions" -> transactions

\* check_files: the file is created with three empty sheets unless it exists
check_files(exists) ==
    /\ fileExists' = TRUE
    /\ transactions' = IF exists THEN transactions ELSE <<>>
    /\ accounts' = IF exists THEN accounts ELSE <<>>
    /\ categories' = IF exists THEN categories ELSE <<>>
    /\ initial' = IF exists THEN initial ELSE <<>>

add_category(name, cat_type) ==
    /\ categories' = Append(get_data("Categories"),
                            [category_name |-> name, type |-> cat_type])
    /\ UNCHANGED <<fileExists, transactions, accounts, initial>>

add_account(name, balance) ==
    /\ accounts' = Append(get_data("Accounts"),
                          [name |-> name, balance |-> Str(balance)])
    /\ initial' = Append(initial, balance)
    /\ UNCHANGED <<fileExists, transactions, categories>>

Min(S) == CHOOSE x \in S : \A y \in S : x <= y
Max(S) == CHOOSE x \in S : \A y \in S : x >= y

\* a raise, or a print followed by return: nothing is written
Raise(e) ==
    /\ outcome' = e
    /\ UNCHANGED <<fileExists, transactions, accounts, categories, initial>>

\* variant: the comparison made with <= in place of <
InsufficientOrEqual(t_type, current_balance, amt) ==
    t_type = "Expense" /\ current_balance - amt <= 0

\* if t_type=="Expense": if current_balance-amount<0
Insufficient(t_type, current_balance, amt) ==
    t_type = "Expense" /\ current_balance - amt < 0

\* variant: the id taken as the row count, without the + 1
CountAsId(df) == Len(df)

\* "id": len(df) + 1
NewId(df) == Len(df) + 1

\* variant: the row is appended although no Accounts row has the name
add_transaction_unchecked(account, category, amount, t_type) ==
    LET dfa == get_data("Accounts")
        df == get_data("Transactions")
        matching == {i \in 1..Len(dfa) : dfa[i].name = account}
    IN IF ~IsNumeric(amount) THEN Raise("ValueError")
       ELSE IF matching = {}
       THEN /\ transactions' = Append(df, [id |-> NewId(df), account |-> account,
                                           category |-> category,
                                           amount |-> ToNum(amount), type |-> t_type])
            /\ outcome' = "ok"
            /\ UNCHANGED <<fileExists, accounts, categories, initial>>
       ELSE LET acc_index == Min(matching) IN
            IF ~CellNumeric(dfa[acc_index].balance) THEN Raise("ValueError")
            ELSE LET amt == ToNum(amount)
                     current_balance == float(dfa[acc_index].balance)
                 IN IF Insufficient(t_type, current_balance, amt)
                    THEN Raise("Insuficient balance")
                    ELSE /\ transactions' =
                                Append(df, [id |-> NewId(df), account |-> account,
                                            category |-> category, amount |-> amt,
                                            type |-> t_type])
                         /\ accounts' =
                                [dfa EXCEPT ![acc_index].balance =
                                    Num(IF t_type = "Expense" THEN current_balance - amt
                                        ELSE current_balance + amt)]
                         /\ outcome' = "ok"
                         /\ UNCHANGED <<fileExists, categories, initial>>

add_transaction(account, category, amount, t_type) ==
    LET dfa == get_data("Accounts")
        df == get_data("Transactions")
        matching == {i \in 1..Len(dfa) : dfa[i].name = account}
    IN IF matching = {}
       THEN Raise("IndexError")        \* .to_list()[0] of an empty list
       ELSE LET acc_index == Min(matching) IN
            IF ~IsNumeric(amount) \/ ~CellNumeric(dfa[acc_index].balance)
            THEN Raise("ValueError")   \* float(amount), float(balance cell)
            ELSE LET amt == ToNum(amount)
                     current_balance == float(dfa[acc_index].balance)
                 IN IF Insufficient(t_type, current_balance, amt)
                    THEN Raise("Insuficient balance")
                    ELSE LET new_balance ==
                                 IF t_type = "Expense" THEN current_balance - amt
                                 ELSE current_balance + amt
                             new_row == [id |-> NewId(df),
                                         account |-> account,
                                         category |-> category,
                                         amount |-> amt,
                                         type |-> t_type]
                         IN /\ transactions' = Append(df, new_row)
                            /\ accounts' =
                                   [dfa EXCEPT ![acc_index].balance = Num(new_balance)]
                            /\ outcome' = "ok"
                            /\ UNCHANGED <<fileExists, categories, initial>>

RECURSIVE SumAmount(_, _)
\* trans[trans['type'] == t_type]['amount'].sum()
SumAmount(trans, t_type) ==
    IF trans = <<>> THEN 0
    ELSE SumAmount(SubSeq(trans, 1, Len(trans) - 1), t_type)
         + (IF trans[Len(trans)].type = t_type THEN trans[Len(trans)].amount ELSE 0)

RECURSIVE SumNum(_)
SumNum(cells) ==
    IF cells = <<>> THEN 0
    ELSE SumNum(SubSeq(cells, 1, Len(cells) - 1)) + cells[Len(cells)].n

RECURSIVE Concat(_)
Concat(cells) ==
    IF cells = <<>> THEN <<>>
    ELSE Concat(SubSeq(cells, 1, Len(cells) - 1)) \o cells[Len(cells)].s

\* accs['balance'].sum(): a numeric column adds up; a column of text cells
\* is concatenated; text and numbers together raise TypeError
SumBalance(accs) ==
    LET cells == [i \in 1..Len(accs) |-> accs[i].balance] IN
    IF \A i \in 1..Len(cells) : cells[i].k = "num"
    THEN [raised |-> "", value |-> Num(SumNum(cells))]
    ELSE IF \A i \in 1..Len(cells) : cells[i].k = "str"
    THEN [raised |-> "", value |-> Str(Concat(cells))]
    ELSE [raised |-> "TypeError", value |-> Num(0)]

get_summary ==
    LET trans == get_data("Transactions")
        accs == get_data("Accounts")
        income == IF trans = <<>> THEN 0 ELSE SumAmount(trans, "Income")
        expense == IF trans = <<>> THEN 0 ELSE SumAmount(trans, "Expense")
        total == IF accs = <<>> THEN [raised |-> "", value |-> Num(0)]
                 ELSE SumBalance(accs)
    IN [raised |-> IF fileExists THEN total.raised ELSE "FileNotFoundError",
        total |-> total.value, income |-> income, expense |-> expense]

----------------------------------------------------------------------------
(* FinanceApp handlers.  Each one ends in show_dashboard, which reads the  *)
(* sheets and writes none of them.  pd.read_excel raises FileNotFoundError *)
(* when the file is gone.                                                  *)

save_account(name, text) ==
    LET balance == IF text = <<>> THEN <<"0">> ELSE text IN
    /\ IF ~fileExists THEN Raise("FileNotFoundError")
       ELSE IF name # ""
       THEN add_account(name, balance) /\ outcome' = "ok"
       ELSE Raise("no name")
    /\ UNCHANGED rateVars
    /\ WithinBounds

save_category(name, cat_type) ==
    /\ IF ~fileExists THEN Raise("FileNotFoundError")
       ELSE IF name # ""
       THEN add_category(name, cat_type) /\ outcome' = "ok"
       ELSE Raise("no name")
    /\ UNCHANGED rateVars
    /\ WithinBounds

MatchingRows(df, cat) == {i \in 1..Len(df) : df[i].category_name = cat}

\* variant: the type of the last matching row, matching_rows.iloc[-1]
LastMatchingType(df, cat) == df[Max(MatchingRows(df, cat))].type

\* matching_rows.iloc[0]
FirstMatchingType(df, cat) == df[Min(MatchingRows(df, cat))].type

save_transaction(amt, account, cat) ==
    /\ IF ~fileExists THEN Raise("FileNotFoundError")
       ELSE LET df == get_data("Categories") IN
            IF MatchingRows(df, cat) = {}
            THEN Raise("Category not found")
            ELSE LET typ == FirstMatchingType(df, cat) IN
                 IF amt # <<>>
                 THEN add_transaction(account, cat, amt, typ)
                 ELSE Raise("no amount")
    /\ UNCHANGED rateVars
    /\ WithinBounds

\* variant: the sheets are recreated although os.remove raised
clear_data_forced(removable) ==
    /\ check_files(FALSE)
    /\ outcome' = "ok"
    /\ UNCHANGED rateVars

\* removable: os.remove succeeds; otherwise it raises PermissionError
clear_data(removable) ==
    /\ IF fileExists
       THEN IF removable
            THEN check_files(FALSE) /\ outcome' = "ok"
            ELSE Raise("File is Open")
       ELSE check_files(fileExists) /\ outcome' = "ok"
    /\ UNCHANGED rateVars

\* the environment: the file is deleted outside the program, the case the
\* else branch of clear_data recovers from
FileRemoved ==
    /\ fileExists
    /\ fileExists' = FALSE
    /\ transactions' = <<>>
    /\ accounts' = <<>>
    /\ categories' = <<>>
    /\ initial' = <<>>
    /\ outcome' = "removed"
    /\ UNCHANGED rateVars

----------------------------------------------------------------------------
(* CurrencyManager.  Rates are in tenths: 400 is 40.0, 10 is 1.0, 9 is 0.9 *)

DAY == 86400

\* the moments at which time.time() is read
Instants == {0, 1, DAY - 1, DAY, DAY + 1, 2 * DAY}

Fallback == [TRY |-> 400, USD |-> 10, EUR |-> 9]

\* response.json()['rates'] of a successful fetch
FetchedRates == {[TRY |-> 410, EUR |-> 9], [TRY |-> 420, USD |-> 20, EUR |-> 8]}

\* requests.get(...).json()['rates']: a transport failure, a body that is
\* not the expected JSON, or a rate mapping
Responses ==
    {[kind |-> "error", rates |-> <<>>], [kind |-> "malformed", rates |-> <<>>]}
    \cup {[kind |-> "ok", rates |-> r] : r \in FetchedRates}

\* rates['USD'] = 1.0
WithUSD(rates) ==
    [c \in DOMAIN rates \cup {"USD"} |-> IF c = "USD" THEN 10 ELSE rates[c]]

NoCache == [kind |-> "absent", timestamp |-> 0, rates |-> <<>>]

\* the states RATES_FILE may be found in when the program starts
StartCaches ==
    {NoCache,
     [kind |-> "unreadable", timestamp |-> 0, rates |-> <<>>],
     [kind |-> "malformed", timestamp |-> 0, rates |-> <<>>],
     [kind |-> "valid", timestamp |-> 0, rates |-> [TRY |-> 390, USD |-> 10]]}

Return(rates, fetch) == [raised |-> "", value |-> rates, fetch |-> fetch]

get_rates(response) ==
    /\ IF cache.kind = "unreadable"
       THEN \* open(RATES_FILE, 'r') is outside the try
            /\ returned' = [raised |-> "PermissionError", value |-> <<>>,
                            fetch |-> FALSE]
            /\ UNCHANGED cache
       ELSE IF cache.kind = "malformed"
       THEN \* json.load(f) is outside the try
            /\ returned' = [raised |-> "JSONDecodeError", value |-> <<>>,
                            fetch |-> FALSE]
            /\ UNCHANGED cache
       ELSE IF cache.kind = "valid" /\ now - cache.timestamp < DAY
       THEN /\ returned' = Return(cache.rates, FALSE)
            /\ UNCHANGED cache
       ELSE IF response.kind = "ok"
       THEN LET rates == WithUSD(response.rates) IN
            /\ cache' = [kind |-> "valid", timestamp |-> now, rates |-> rates]
            /\ returned' = Return(rates, TRUE)
       ELSE /\ returned' = Return(Fallback, TRUE)
            /\ UNCHANGED cache
    /\ UNCHANGED now
    /\ UNCHANGED ledgerVars

\* time passes between two calls
Tick ==
    /\ \E t \in Instants : t > now /\ now' = t
    /\ UNCHANGED <<cache, returned>>
    /\ UNCHANGED ledgerVars

----------------------------------------------------------------------------
(* Specifications *)

LedgerInit ==
    /\ fileExists = TRUE
    /\ transactions = <<>>
    /\ accounts = <<>>
    /\ categories = <<>>
    /\ initial = <<>>
    /\ outcome = "ok"

Init ==
    /\ LedgerInit
    /\ now = 0
    /\ cache = NoCache
    /\ returned = Return(<<>>, FALSE)

Next ==
    \/ \E name \in NameInputs, text \in BalanceInputs : save_account(name, text)
    \/ \E name \in CategoryNameInputs, t \in CategoryTypes : save_category(name, t)
    \/ \E amt \in AmountInputs, a \in AccountNames, c \in CategoryNames :
           save_transaction(amt, a, c)
    \/ \E removable \in BOOLEAN : clear_data(removable)
    \/ FileRemoved

Spec == Init /\ [][Next]_vars

RatesInit ==
    /\ LedgerInit
    /\ now = 0
    /\ cache \in StartCaches
    /\ returned = Return(<<>>, FALSE)

RatesNext ==
    \/ \E response \in Responses : get_rates(response)
    \/ Tick

RatesSpec == RatesInit /\ [][RatesNext]_vars

----------------------------------------------------------------------------
(* Properties *)

RECURSIVE SumOver(_, _)
\* the sum of f[i] over the indices i in S
SumOver(S, f) ==
    IF S = {} THEN 0
    ELSE LET i == CHOOSE j \in S : TRUE IN f[i] + SumOver(S \ {i}, f)

Amounts == [i \in 1..Len(transactions) |-> transactions[i].amount]

\* the amounts of the transactions of one type recorded against a name
AgainstName(name, t_type) ==
    SumOver({i \in 1..Len(transactions) :
                transactions[i].account = name /\ transactions[i].type = t_type},
            Amounts)

OfType(t_type) ==
    SumOver({i \in 1..Len(transactions) : transactions[i].type = t_type}, Amounts)

\* the Accounts row a transaction against the name is applied to
RowOf(name) == Min({i \in 1..Len(accounts) : accounts[i].name = name})

Present(name) == \E i \in 1..Len(accounts) : accounts[i].name = name
Known(cat) == \E j \in 1..Len(categories) : categories[j].category_name = cat

\* the type of the first Categories row with the name
StoredType(cat) ==
    categories[Min({j \in 1..Len(categories) :
                       categories[j].category_name = cat})].type

TablesUnchanged == UNCHANGED <<transactions, accounts, categories>>

ErrorOutcomes == {"IndexError", "ValueError", "Category not found", "FileNotFoundError"}

\* C1: every Accounts row's balance is its initial balance plus the Income
\* amounts minus the Expense amounts recorded against the row's name.
C1_BalanceIsInitialPlusSignedSum ==
    \A i \in 1..Len(accounts) :
        LET row == accounts[i]
            net == AgainstName(row.name, "Income") - AgainstName(row.name, "Expense")
        IN IF IsNumeric(initial[i])
           THEN CellNumeric(row.balance)
                /\ float(row.balance) = ToNum(initial[i]) + net
           ELSE row.balance = Str(initial[i]) /\ net = 0

\* C2: an Expense whose amount exceeds the account's balance is rejected and
\* leaves the Transactions rows and every balance as they were; an Expense
\* whose amount equals the balance is accepted.
C2_ExpenseOverBalanceRejected ==
    [][\A c \in CategoryNames :
          (fileExists /\ Known(c) /\ StoredType(c) = "Expense") =>
          \A a \in AccountNames :
              (Present(a) /\ CellNumeric(accounts[RowOf(a)].balance)) =>
              \A amt \in AmountInputs :
                  IsNumeric(amt) =>
                  LET balance == float(accounts[RowOf(a)].balance)
                      amount == ToNum(amt)
                  IN /\ balance - amount < 0 =>
                            \/ /\ outcome' = "Insuficient balance"
                               /\ transactions' = transactions
                               /\ accounts' = accounts
                            \/ ~save_transaction(amt, a, c)
                     /\ balance = amount =>
                            \/ /\ outcome' = "ok"
                               /\ Len(transactions') = Len(transactions) + 1
                               /\ accounts'[RowOf(a)].balance = Num(0)
                            \/ ~save_transaction(amt, a, c)]_vars

\* an Expense was rejected after an earlier Expense took a balance to zero
C2_Witness ==
    /\ outcome = "Insuficient balance"
    /\ \E i \in 1..Len(accounts), j \in 1..Len(transactions) :
          /\ accounts[i].balance = Num(0)
          /\ transactions[j].account = accounts[i].name
          /\ transactions[j].type = "Expense"
          /\ transactions[j].amount > 0

\* the three faults of a save-transaction the claim names
Faulty(amt, a, c) == ~Present(a) \/ ~Known(c) \/ ~IsNumeric(amt)

C4_SummaryIsTheSums ==
    fileExists =>
        /\ get_summary.raised = ""
        /\ \A i \in 1..Len(accounts) : CellNumeric(accounts[i].balance)
        /\ get_summary.total =
               Num(SumOver(1..Len(accounts),
                           [i \in 1..Len(accounts) |-> float(accounts[i].balance)]))
        /\ get_summary.income = OfType("Income")
        /\ get_summary.expense = OfType("Expense")

C6_AmountsArePositive ==
    \A i \in 1..Len(transactions) : transactions[i].amount > 0

\* C7: get_rates never raises to its caller.
C7_GetRatesNeverRaises == returned.raised = ""

\* C8: a cache younger than 24 hours is returned without a fetch; in every
\* other cache state a fetch is attempted: its success is returned with USD
\* at 1.0 and stored with the time of the call, its failure returns the
\* fallback mapping and leaves the cache file as it was.
C8_GetRatesDecision ==
    [][\A response \in Responses :
          get_rates(response) =>
              IF cache.kind = "valid" /\ now - cache.timestamp < 86400
              THEN /\ returned' = [raised |-> "", value |-> cache.rates,
                                   fetch |-> FALSE]
                   /\ cache' = cache
              ELSE /\ returned'.fetch
                   /\ returned'.raised = ""
                   /\ IF response.kind = "ok"
                      THEN /\ returned'.value =
                                  [c \in DOMAIN response.rates \cup {"USD"} |->
                                      IF c = "USD" THEN 10 ELSE response.rates[c]]
                           /\ cache' = [kind |-> "valid", timestamp |-> now,
                                        rates |-> returned'.value]
                      ELSE /\ returned'.value = [TRY |-> 400, USD |-> 10, EUR |-> 9]
                           /\ cache' = cache]_vars

\* C9: reset empties the three tables when the file can be deleted or is
\* absent; when the file is locked it reports that and changes no table.
C9_ResetClearsOrLeaves ==
    [][\A removable \in BOOLEAN :
          clear_data(removable) =>
              IF ~fileExists \/ removable
              THEN /\ transactions' = <<>>
                   /\ accounts' = <<>>
                   /\ categories' = <<>>
                   /\ fileExists'
              ELSE /\ outcome' = "File is Open"
                   /\ TablesUnchanged]_vars

\* a reset was refused while the tables had rows
C9_Witness ==
    /\ outcome = "File is Open"
    /\ Len(accounts) > 0
    /\ Len(transactions) > 0

\* C10: the Transactions rows carry the ids 1..N in insertion order.
C10_IdsAreRowNumbers ==
    \A i \in 1..Len(transactions) : transactions[i].id = i

\* two rows were recorded and a later call was rejected or failed
C10_Witness ==
    /\ Len(transactions) >= 2
    /\ outcome \in {"Insuficient balance", "IndexError", "ValueError"}

====
